---------------------------- MODULE Spec2Model ----------------------------
(***************************************************************************)
(* Model of the Demuxer class (src/src/demuxer/demuxer.{hpp,cpp}): one     *)
(* instance driven by a single caller, on top of the container engine      *)
(* (libavformat) it calls.  The instance's fields are the variables; each  *)
(* public method is one action that runs the whole method body.            *)
(*                                                                         *)
(* A second view runs the same methods statement by statement, for one     *)
(* thread and for two threads on the same instance, and a third part       *)
(* models the Logger class (src/src/utils/logger.hpp).                     *)
(***************************************************************************)
EXTENDS Integers, Sequences, FiniteSets, TLC

VARIABLES
    disk,                 \* the container file stored under MediaFile
    type_,                \* MediaType fixed by the constructor
    format_ctx_,          \* AVFormatContext*: nullptr or the engine session
    video_stream_,        \* AVStream*: nullptr or a handle into streams[]
    audio_stream_,        \* AVStream*
    video_stream_index_,  \* int
    audio_stream_index_,  \* int
    eof_file_,            \* bool
    last,                 \* the last method call: its name, its argument,
                          \* its bool result or the packet it returned, and
                          \* whether the instance was open and at end of
                          \* file when it was called
    calls,                \* engine calls made by the last method call
    returned,             \* packets handed out since the last open/seek
    startPos,             \* engine read position at the last open/seek
    readFailed,           \* a read error occurred since the last open/seek
    alive,                \* the instance has not been destroyed
    sessions,             \* engine sessions opened and not yet closed
    held,                 \* an open() returned true and close() has not
                          \* been invoked since
    firstOpen,            \* what the first successful open() left to observe
    pc,                   \* per thread: where it stands inside a method
    loc,                  \* per thread: the locals of the method it runs
    hazard,               \* the engine call that was made on a session
                          \* already released ("none" so far)
    globalLevel_,         \* Logger::globalLevel_
    stream_,              \* per thread: the LogStream of the log statement
                          \* it executes, nullptr between statements
    cout,                 \* what std::cout has received, in order
    cerr,                 \* what std::cerr has received, in order
    logged                \* the log statements completed so far

vars == <<disk, type_, format_ctx_, video_stream_, audio_stream_,
          video_stream_index_, audio_stream_index_, eof_file_,
          last, calls, returned, startPos, readFailed,
          alive, sessions, held, firstOpen,
          pc, loc, hazard, globalLevel_, stream_, cout, cerr, logged>>

stepVars == <<pc, loc, hazard>>

logVars == <<globalLevel_, stream_, cout, cerr, logged>>

historyVars == <<last, calls, returned, startPos, readFailed,
                 alive, sessions, held, firstOpen>>

-----------------------------------------------------------------------------
(* Bounds of the model *)

MaxPackets == 3      \* longest packet sequence of a container
MaxMessages == 2     \* most log statements a thread executes

-----------------------------------------------------------------------------
(* Values of the engine's API *)

AVERROR_ENOENT == -2
AVERROR_EIO == -5
AVERROR_EOF == -541478725
AVERROR_STREAM_NOT_FOUND == -1381258232
AV_TIME_BASE == 1000000
AV_NOPTS_VALUE == -2147483647   \* INT64_MIN, brought into the checker's range
AVSEEK_FLAG_BACKWARD == 1

\* enum class LogLevel
DEBUG == 0
INFO == 1
WARN == 2
ERROR == 3
FATAL == 4

MediaType == {"VIDEO", "AUDIO"}

nullptr == [null |-> TRUE]

\* A container file as the engine sees it: the stream table (the kind of
\* each stream, indices from 0), the interleaved packets (the stream index
\* of each, in read order) and, for each kind, what the engine's
\* best-stream heuristic answers on this file.
\* The stream tables are those of the files the tests build (video and
\* audio, audio only) and the other tables of at most two streams.
StreamTables ==
    {<<>>, <<"VIDEO">>, <<"AUDIO">>,
     <<"VIDEO", "AUDIO">>, <<"AUDIO", "VIDEO">>,
     <<"VIDEO", "VIDEO">>, <<"AUDIO", "AUDIO">>}

PacketSeqs(n) == UNION {[1..m -> 0..(n - 1)] : m \in 0..MaxPackets}

\* What av_find_best_stream may answer on a stream table: the index of a
\* stream of that kind, or the error code when there is none.
BestStreams(streams, kind) ==
    LET found == {i \in 0..(Len(streams) - 1) : streams[i + 1] = kind}
    IN  IF found = {} THEN {AVERROR_STREAM_NOT_FOUND} ELSE found

\* Durations the engine may report: unknown or a value, for the container
\* in microseconds, for stream i in ticks of its time base.
ContainerDuration == 1500000
StreamDuration(i) == 1000 * (i + 1)

ContainerDurations == {AV_NOPTS_VALUE, ContainerDuration}

StreamDurations(n) ==
    {ds \in [1..n -> {AV_NOPTS_VALUE} \cup {StreamDuration(i) : i \in 0..(n - 1)}] :
        \A k \in 1..n : ds[k] \in {AV_NOPTS_VALUE, StreamDuration(k - 1)}}

\* The files read packet by packet: every packet sequence, all durations
\* known.
Containers ==
    UNION {{[streams |-> st, packets |-> ps,
             best |-> [VIDEO |-> v, AUDIO |-> a],
             duration |-> ContainerDuration,
             durations |-> [k \in 1..Len(st) |-> StreamDuration(k - 1)]]
              : ps \in PacketSeqs(Len(st)),
                v \in BestStreams(st, "VIDEO"),
                a \in BestStreams(st, "AUDIO")}
           : st \in StreamTables}

\* The files asked for their duration: every combination of known and
\* unknown durations, no packets.
DurationContainers ==
    UNION {{[streams |-> st, packets |-> <<>>,
             best |-> [VIDEO |-> v, AUDIO |-> a],
             duration |-> d, durations |-> ds]
              : v \in BestStreams(st, "VIDEO"),
                a \in BestStreams(st, "AUDIO"),
                d \in ContainerDurations,
                ds \in StreamDurations(Len(st))}
           : st \in StreamTables}

MediaFile == "media.mp4"
Filenames == {"", MediaFile}

\* Results the engine may report for open, probe, read and seek
OpenRets == {0, AVERROR_ENOENT}
ProbeRets == {0, AVERROR_EIO}
SeekRets == {0, AVERROR_EIO}

-----------------------------------------------------------------------------
(* The engine *)

\* avformat_open_input(&ctx, ...): on success ctx is a fresh session on
\* the container, positioned before its first packet; on failure ctx is
\* nullptr.
avformat_open_input(c, ret) ==
    IF ret < 0 THEN nullptr
    ELSE [streams |-> c.streams, packets |-> c.packets, best |-> c.best,
          duration |-> c.duration, durations |-> c.durations,
          pos |-> 0]

\* av_find_best_stream(ctx, kind, -1, -1, nullptr, 0)
av_find_best_stream(ctx, kind) == ctx.best[kind]

\* format_ctx_->streams[i]
StreamAt(ctx, i) ==
    IF i >= 0 /\ i < Len(ctx.streams) THEN [index |-> i] ELSE nullptr

\* av_read_frame(ctx, packet): the next packet of the session, AVERROR_EOF
\* past the last one, or an I/O error when the engine fails on this read.
av_read_frame(ctx, fails) ==
    IF fails THEN [ret |-> AVERROR_EIO, ctx |-> ctx]
    ELSE IF ctx.pos >= Len(ctx.packets) THEN [ret |-> AVERROR_EOF, ctx |-> ctx]
    ELSE [ret |-> 0,
          ctx |-> [ctx EXCEPT !.pos = ctx.pos + 1],
          packet |-> [stream_index |-> ctx.packets[ctx.pos + 1],
                      pos |-> ctx.pos + 1]]

-----------------------------------------------------------------------------
(* The Demuxer instance as a record of its fields *)

Self ==
    [type_ |-> type_, format_ctx_ |-> format_ctx_,
     video_stream_ |-> video_stream_, audio_stream_ |-> audio_stream_,
     video_stream_index_ |-> video_stream_index_,
     audio_stream_index_ |-> audio_stream_index_,
     eof_file_ |-> eof_file_]

\* Demuxer::Demuxer(MediaType type)
Demuxer(type) ==
    [type_ |-> type, format_ctx_ |-> nullptr,
     video_stream_ |-> nullptr, audio_stream_ |-> nullptr,
     video_stream_index_ |-> -1, audio_stream_index_ |-> -1,
     eof_file_ |-> FALSE]

getStreamIndex(s) ==
    IF s.type_ = "VIDEO" THEN s.video_stream_index_ ELSE s.audio_stream_index_

getAVStream(s) ==
    IF s.type_ = "VIDEO" THEN s.video_stream_ ELSE s.audio_stream_

getFormatContext(s) == s.format_ctx_

isEOF(s) == s.eof_file_

\* close() releasing the session without the check that there is one
closeCalls_always(s) == <<[op |-> "avformat_close_input", ret |-> 0]>>

\* Engine calls of Demuxer::close()
closeCalls(s) ==
    IF s.format_ctx_ # nullptr THEN <<[op |-> "avformat_close_input", ret |-> 0]>>
    ELSE <<>>

\* close() that leaves the end-of-file flag as it is
close_keepEOF(s) ==
    [s EXCEPT !.format_ctx_ = nullptr,
              !.video_stream_ = nullptr,
              !.audio_stream_ = nullptr,
              !.video_stream_index_ = -1,
              !.audio_stream_index_ = -1]

\* close() that leaves the session pointer as it is
close_keepSession(s) ==
    [s EXCEPT !.video_stream_ = nullptr,
              !.audio_stream_ = nullptr,
              !.video_stream_index_ = -1,
              !.audio_stream_index_ = -1,
              !.eof_file_ = FALSE]

\* close() that leaves the stream indices as they are
close_keepIndices(s) ==
    [s EXCEPT !.format_ctx_ = nullptr,
              !.video_stream_ = nullptr,
              !.audio_stream_ = nullptr,
              !.eof_file_ = FALSE]

\* close() that leaves the stream handles as they are
close_keepHandles(s) ==
    [s EXCEPT !.format_ctx_ = nullptr,
              !.video_stream_index_ = -1,
              !.audio_stream_index_ = -1,
              !.eof_file_ = FALSE]

\* Demuxer::close()
close(s) ==
    [s EXCEPT !.format_ctx_ = nullptr,
              !.video_stream_ = nullptr,
              !.audio_stream_ = nullptr,
              !.video_stream_index_ = -1,
              !.audio_stream_index_ = -1,
              !.eof_file_ = FALSE]

\* Demuxer::open, the empty filename: logged, nothing else
openEmpty(s) == [self |-> s, ret |-> FALSE, calls |-> <<>>]

\* Demuxer::open, the selection of the best video and audio stream
findStreams(s) ==
    LET v == av_find_best_stream(s.format_ctx_, "VIDEO")
        s1 == [s EXCEPT !.video_stream_index_ = v,
                        !.video_stream_ =
                            IF v >= 0 THEN StreamAt(s.format_ctx_, v)
                            ELSE s.video_stream_]
        a == av_find_best_stream(s1.format_ctx_, "AUDIO")
    IN  [self |-> [s1 EXCEPT !.audio_stream_index_ = a,
                             !.audio_stream_ =
                                 IF a >= 0 THEN StreamAt(s1.format_ctx_, a)
                                 ELSE s1.audio_stream_],
         calls |-> <<[op |-> "av_find_best_stream", ret |-> v],
                     [op |-> "av_find_best_stream", ret |-> a]>>]

\* openFile that leaves the session as it is when the probe fails
openFile_noCloseOnProbeFail(s, c, openRet, probeRet) ==
    LET s1 == IF s.format_ctx_ # nullptr THEN close(s) ELSE s
        c1 == IF s.format_ctx_ # nullptr THEN closeCalls(s) ELSE <<>>
        s2 == [s1 EXCEPT !.format_ctx_ = avformat_open_input(c, openRet)]
        c2 == Append(c1, [op |-> "avformat_open_input", ret |-> openRet])
        c3 == Append(c2, [op |-> "avformat_find_stream_info", ret |-> probeRet])
    IN  IF openRet < 0 THEN [self |-> s2, ret |-> FALSE, calls |-> c2]
        ELSE IF probeRet < 0 THEN [self |-> s2, ret |-> FALSE, calls |-> c3]
        ELSE [self |-> findStreams(s2).self, ret |-> TRUE,
              calls |-> c3 \o findStreams(s2).calls]

\* openFile that reports failure when the stream of the declared kind is
\* not found
openFile_requireTarget(s, c, openRet, probeRet) ==
    LET s1 == IF s.format_ctx_ # nullptr THEN close(s) ELSE s
        c1 == IF s.format_ctx_ # nullptr THEN closeCalls(s) ELSE <<>>
        s2 == [s1 EXCEPT !.format_ctx_ = avformat_open_input(c, openRet)]
        c2 == Append(c1, [op |-> "avformat_open_input", ret |-> openRet])
        c3 == Append(c2, [op |-> "avformat_find_stream_info", ret |-> probeRet])
    IN  IF openRet < 0 THEN [self |-> s2, ret |-> FALSE, calls |-> c2]
        ELSE IF probeRet < 0
             THEN [self |-> close(s2), ret |-> FALSE,
                   calls |-> c3 \o closeCalls(s2)]
        ELSE [self |-> findStreams(s2).self,
              ret |-> getStreamIndex(findStreams(s2).self) >= 0,
              calls |-> c3 \o findStreams(s2).calls]

\* openFile that opens the new session over the previous one
openFile_noPreClose(s, c, openRet, probeRet) ==
    LET s2 == [s EXCEPT !.format_ctx_ = avformat_open_input(c, openRet)]
        c2 == <<[op |-> "avformat_open_input", ret |-> openRet]>>
        c3 == Append(c2, [op |-> "avformat_find_stream_info", ret |-> probeRet])
    IN  IF openRet < 0 THEN [self |-> s2, ret |-> FALSE, calls |-> c2]
        ELSE IF probeRet < 0
             THEN [self |-> close(s2), ret |-> FALSE,
                   calls |-> c3 \o closeCalls(s2)]
        ELSE [self |-> findStreams(s2).self, ret |-> TRUE,
              calls |-> c3 \o findStreams(s2).calls]

\* openFile that keeps the session it has when it is already open
openFile_keepOpen(s, c, openRet, probeRet) ==
    LET s2 == [s EXCEPT !.format_ctx_ = avformat_open_input(c, openRet)]
        c2 == <<[op |-> "avformat_open_input", ret |-> openRet]>>
        c3 == Append(c2, [op |-> "avformat_find_stream_info", ret |-> probeRet])
    IN  IF s.format_ctx_ # nullptr
        THEN [self |-> s, ret |-> TRUE, calls |-> <<>>]
        ELSE IF openRet < 0 THEN [self |-> s2, ret |-> FALSE, calls |-> c2]
        ELSE IF probeRet < 0
             THEN [self |-> close(s2), ret |-> FALSE,
                   calls |-> c3 \o closeCalls(s2)]
        ELSE [self |-> findStreams(s2).self, ret |-> TRUE,
              calls |-> c3 \o findStreams(s2).calls]

\* Demuxer::open, a non-empty filename, given what the engine does: the
\* result of avformat_open_input on container c and the result of
\* avformat_find_stream_info.
openFile(s, c, openRet, probeRet) ==
    LET s1 == IF s.format_ctx_ # nullptr THEN close(s) ELSE s
        c1 == IF s.format_ctx_ # nullptr THEN closeCalls(s) ELSE <<>>
        s2 == [s1 EXCEPT !.format_ctx_ = avformat_open_input(c, openRet)]
        c2 == Append(c1, [op |-> "avformat_open_input", ret |-> openRet])
        c3 == Append(c2, [op |-> "avformat_find_stream_info", ret |-> probeRet])
    IN  IF openRet < 0 THEN [self |-> s2, ret |-> FALSE, calls |-> c2]
        ELSE IF probeRet < 0
             THEN [self |-> close(s2), ret |-> FALSE,
                   calls |-> c3 \o closeCalls(s2)]
        ELSE [self |-> findStreams(s2).self, ret |-> TRUE,
              calls |-> c3 \o findStreams(s2).calls]

\* open without the check of the filename
open_noEmptyCheck(s, filename, c, openRet, probeRet) ==
    openFile(s, c, openRet, probeRet)

\* open that releases the previous session before it checks the filename
open_closeFirst(s, filename, c, openRet, probeRet) ==
    IF filename = ""
    THEN [self |-> close(s), ret |-> FALSE, calls |-> closeCalls(s)]
    ELSE openFile(s, c, openRet, probeRet)

\* Demuxer::open(filename)
open(s, filename, c, openRet, probeRet) ==
    IF filename = "" THEN openEmpty(s)
    ELSE openFile(s, c, openRet, probeRet)

\* The loop of Demuxer::readPacket(): n reads were made in this call, the
\* engine fails on read number errAt (never when errAt is 0).
RECURSIVE ReadLoop(_, _, _, _, _)
\* The loop handing out the first packet it pulls, whatever its stream
ReadLoop_noFilter(s, target_stream_index, n, errAt, cs) ==
    LET r == av_read_frame(s.format_ctx_, errAt = n + 1)
        cs1 == Append(cs, [op |-> "av_read_frame", ret |-> r.ret])
        s1 == [s EXCEPT !.format_ctx_ = r.ctx]
    IN  IF r.ret < 0
        THEN [self |-> IF r.ret = AVERROR_EOF
                       THEN [s1 EXCEPT !.eof_file_ = TRUE] ELSE s1,
              ret |-> nullptr, calls |-> cs1]
        ELSE [self |-> s1, ret |-> r.packet, calls |-> cs1]

\* The loop comparing the stream index with >= in place of ==
ReadLoop_geq(s, target_stream_index, n, errAt, cs) ==
    LET r == av_read_frame(s.format_ctx_, errAt = n + 1)
        cs1 == Append(cs, [op |-> "av_read_frame", ret |-> r.ret])
        s1 == [s EXCEPT !.format_ctx_ = r.ctx]
    IN  IF r.ret < 0
        THEN [self |-> IF r.ret = AVERROR_EOF
                       THEN [s1 EXCEPT !.eof_file_ = TRUE] ELSE s1,
              ret |-> nullptr, calls |-> cs1]
        ELSE IF r.packet.stream_index >= target_stream_index
        THEN [self |-> s1, ret |-> r.packet, calls |-> cs1]
        ELSE ReadLoop(s1, target_stream_index, n + 1, errAt, cs1)

\* The loop setting the end-of-file flag on every failed read
ReadLoop_eofOnAnyError(s, target_stream_index, n, errAt, cs) ==
    LET r == av_read_frame(s.format_ctx_, errAt = n + 1)
        cs1 == Append(cs, [op |-> "av_read_frame", ret |-> r.ret])
        s1 == [s EXCEPT !.format_ctx_ = r.ctx]
    IN  IF r.ret < 0
        THEN [self |-> [s1 EXCEPT !.eof_file_ = TRUE],
              ret |-> nullptr, calls |-> cs1]
        ELSE IF r.packet.stream_index = target_stream_index
        THEN [self |-> s1, ret |-> r.packet, calls |-> cs1]
        ELSE ReadLoop(s1, target_stream_index, n + 1, errAt, cs1)

\* The loop that never sets the end-of-file flag
ReadLoop_noEofFlag(s, target_stream_index, n, errAt, cs) ==
    LET r == av_read_frame(s.format_ctx_, errAt = n + 1)
        cs1 == Append(cs, [op |-> "av_read_frame", ret |-> r.ret])
        s1 == [s EXCEPT !.format_ctx_ = r.ctx]
    IN  IF r.ret < 0
        THEN [self |-> s1, ret |-> nullptr, calls |-> cs1]
        ELSE IF r.packet.stream_index = target_stream_index
        THEN [self |-> s1, ret |-> r.packet, calls |-> cs1]
        ELSE ReadLoop(s1, target_stream_index, n + 1, errAt, cs1)

ReadLoop(s, target_stream_index, n, errAt, cs) ==
    LET r == av_read_frame(s.format_ctx_, errAt = n + 1)
        cs1 == Append(cs, [op |-> "av_read_frame", ret |-> r.ret])
        s1 == [s EXCEPT !.format_ctx_ = r.ctx]
    IN  IF r.ret < 0
        THEN [self |-> IF r.ret = AVERROR_EOF
                       THEN [s1 EXCEPT !.eof_file_ = TRUE] ELSE s1,
              ret |-> nullptr, calls |-> cs1]
        ELSE IF r.packet.stream_index = target_stream_index
        THEN [self |-> s1, ret |-> r.packet, calls |-> cs1]
        ELSE ReadLoop(s1, target_stream_index, n + 1, errAt, cs1)

\* readPacket without the check of the target stream index
readPacket_noIndexCheck(s, errAt) ==
    IF s.format_ctx_ = nullptr
    THEN [self |-> s, ret |-> nullptr, calls |-> <<>>]
    ELSE ReadLoop(s, getStreamIndex(s), 0, errAt, <<>>)

\* readPacket taking every index but -1 for a target stream
readPacket_indexNotMinusOne(s, errAt) ==
    IF s.format_ctx_ = nullptr
    THEN [self |-> s, ret |-> nullptr, calls |-> <<>>]
    ELSE IF getStreamIndex(s) = -1
    THEN [self |-> s, ret |-> nullptr, calls |-> <<>>]
    ELSE ReadLoop(s, getStreamIndex(s), 0, errAt, <<>>)

\* Demuxer::readPacket()
readPacket(s, errAt) ==
    IF s.format_ctx_ = nullptr
    THEN [self |-> s, ret |-> nullptr, calls |-> <<>>]
    ELSE IF getStreamIndex(s) < 0
    THEN [self |-> s, ret |-> nullptr, calls |-> <<>>]
    ELSE ReadLoop(s, getStreamIndex(s), 0, errAt, <<>>)

\* av_rescale_q(a, bq, cq): a * bq / cq rounded to the nearest integer,
\* halves away from zero.
av_rescale_q(a, bq, cq) ==
    LET b == bq.num * cq.den
        c == cq.num * bq.den
    IN  IF a >= 0 THEN (a * b + c \div 2) \div c
        ELSE -(((-a) * b + c \div 2) \div c)

AV_TIME_BASE_Q == [num |-> 1, den |-> AV_TIME_BASE]

\* seek that leaves the end-of-file flag as it is
seek_keepEOF(s, timestamp, flags, time_base, seekRet, newPos) ==
    IF s.format_ctx_ = nullptr
    THEN [self |-> s, ret |-> FALSE, calls |-> <<>>]
    ELSE IF getStreamIndex(s) < 0
    THEN [self |-> s, ret |-> FALSE, calls |-> <<>>]
    ELSE IF StreamAt(s.format_ctx_, getStreamIndex(s)) = nullptr
    THEN [self |-> s, ret |-> FALSE, calls |-> <<>>]
    ELSE
      LET seek_target == av_rescale_q(timestamp, AV_TIME_BASE_Q, time_base)
          cs == <<[op |-> "av_seek_frame", ret |-> seekRet,
                   stream_index |-> getStreamIndex(s),
                   timestamp |-> seek_target, flags |-> flags]>>
          s1 == [s EXCEPT !.format_ctx_.pos = newPos]
      IN  [self |-> s1, ret |-> seekRet >= 0, calls |-> cs]

\* seek that clears the end-of-file flag before it asks the engine
seek_clearFirst(s, timestamp, flags, time_base, seekRet, newPos) ==
    IF s.format_ctx_ = nullptr
    THEN [self |-> s, ret |-> FALSE, calls |-> <<>>]
    ELSE IF getStreamIndex(s) < 0
    THEN [self |-> s, ret |-> FALSE, calls |-> <<>>]
    ELSE IF StreamAt(s.format_ctx_, getStreamIndex(s)) = nullptr
    THEN [self |-> s, ret |-> FALSE, calls |-> <<>>]
    ELSE
      LET seek_target == av_rescale_q(timestamp, AV_TIME_BASE_Q, time_base)
          cs == <<[op |-> "av_seek_frame", ret |-> seekRet,
                   stream_index |-> getStreamIndex(s),
                   timestamp |-> seek_target, flags |-> flags]>>
          s1 == [s EXCEPT !.format_ctx_.pos = newPos, !.eof_file_ = FALSE]
      IN  [self |-> s1, ret |-> seekRet >= 0, calls |-> cs]

\* seek that sets the end-of-file flag when it lands behind the last packet
seek_eofAtEnd(s, timestamp, flags, time_base, seekRet, newPos) ==
    IF s.format_ctx_ = nullptr
    THEN [self |-> s, ret |-> FALSE, calls |-> <<>>]
    ELSE IF getStreamIndex(s) < 0
    THEN [self |-> s, ret |-> FALSE, calls |-> <<>>]
    ELSE IF StreamAt(s.format_ctx_, getStreamIndex(s)) = nullptr
    THEN [self |-> s, ret |-> FALSE, calls |-> <<>>]
    ELSE
      LET seek_target == av_rescale_q(timestamp, AV_TIME_BASE_Q, time_base)
          cs == <<[op |-> "av_seek_frame", ret |-> seekRet,
                   stream_index |-> getStreamIndex(s),
                   timestamp |-> seek_target, flags |-> flags]>>
          s1 == [s EXCEPT !.format_ctx_.pos = newPos]
      IN  IF seekRet < 0 THEN [self |-> s1, ret |-> FALSE, calls |-> cs]
          ELSE [self |-> [s1 EXCEPT !.eof_file_ =
                                      (newPos = Len(s.format_ctx_.packets))],
                ret |-> TRUE, calls |-> cs]

\* seek handing the caller's microseconds to the engine as they are
seek_unscaled(s, timestamp, flags, time_base, seekRet, newPos) ==
    IF s.format_ctx_ = nullptr
    THEN [self |-> s, ret |-> FALSE, calls |-> <<>>]
    ELSE IF getStreamIndex(s) < 0
    THEN [self |-> s, ret |-> FALSE, calls |-> <<>>]
    ELSE IF StreamAt(s.format_ctx_, getStreamIndex(s)) = nullptr
    THEN [self |-> s, ret |-> FALSE, calls |-> <<>>]
    ELSE
      LET cs == <<[op |-> "av_seek_frame", ret |-> seekRet,
                   stream_index |-> getStreamIndex(s),
                   timestamp |-> timestamp, flags |-> flags]>>
          s1 == [s EXCEPT !.format_ctx_.pos = newPos]
      IN  IF seekRet < 0 THEN [self |-> s1, ret |-> FALSE, calls |-> cs]
          ELSE [self |-> [s1 EXCEPT !.eof_file_ = FALSE], ret |-> TRUE,
                calls |-> cs]

\* Demuxer::seek(timestamp, flags), given what the engine does: the time
\* base of the target stream, the result of av_seek_frame and the read
\* position it leaves the session at.
seek(s, timestamp, flags, time_base, seekRet, newPos) ==
    IF s.format_ctx_ = nullptr
    THEN [self |-> s, ret |-> FALSE, calls |-> <<>>]
    ELSE IF getStreamIndex(s) < 0
    THEN [self |-> s, ret |-> FALSE, calls |-> <<>>]
    ELSE IF StreamAt(s.format_ctx_, getStreamIndex(s)) = nullptr
    THEN [self |-> s, ret |-> FALSE, calls |-> <<>>]
    ELSE
      LET seek_target == av_rescale_q(timestamp, AV_TIME_BASE_Q, time_base)
          cs == <<[op |-> "av_seek_frame", ret |-> seekRet,
                   stream_index |-> getStreamIndex(s),
                   timestamp |-> seek_target, flags |-> flags]>>
          s1 == [s EXCEPT !.format_ctx_.pos = newPos]
      IN  IF seekRet < 0 THEN [self |-> s1, ret |-> FALSE, calls |-> cs]
          ELSE [self |-> [s1 EXCEPT !.eof_file_ = FALSE], ret |-> TRUE,
                calls |-> cs]

\* stream->duration of the stream a handle refers to
DurationOf(ctx, stream) == ctx.durations[stream.index + 1]

\* getDuration asking the target stream before the container
getDuration_streamFirst(s, time_base) ==
    IF s.format_ctx_ = nullptr THEN 0
    ELSE IF getAVStream(s) # nullptr
            /\ DurationOf(s.format_ctx_, getAVStream(s)) # AV_NOPTS_VALUE
    THEN av_rescale_q(DurationOf(s.format_ctx_, getAVStream(s)),
                      time_base, AV_TIME_BASE_Q)
    ELSE IF s.format_ctx_.duration # AV_NOPTS_VALUE
    THEN s.format_ctx_.duration
    ELSE IF s.video_stream_ # nullptr
            /\ DurationOf(s.format_ctx_, s.video_stream_) # AV_NOPTS_VALUE
    THEN av_rescale_q(DurationOf(s.format_ctx_, s.video_stream_),
                      time_base, AV_TIME_BASE_Q)
    ELSE IF s.audio_stream_ # nullptr
            /\ DurationOf(s.format_ctx_, s.audio_stream_) # AV_NOPTS_VALUE
    THEN av_rescale_q(DurationOf(s.format_ctx_, s.audio_stream_),
                      time_base, AV_TIME_BASE_Q)
    ELSE 0

\* getDuration returning the container's duration without the check that
\* it is set
getDuration_noUnsetCheck(s, time_base) ==
    IF s.format_ctx_ = nullptr THEN 0
    ELSE s.format_ctx_.duration

\* Demuxer::getDuration(), given the time base the engine reports for the
\* streams.
getDuration(s, time_base) ==
    IF s.format_ctx_ = nullptr THEN 0
    ELSE IF s.format_ctx_.duration # AV_NOPTS_VALUE
    THEN s.format_ctx_.duration
    ELSE IF getAVStream(s) # nullptr
            /\ DurationOf(s.format_ctx_, getAVStream(s)) # AV_NOPTS_VALUE
    THEN av_rescale_q(DurationOf(s.format_ctx_, getAVStream(s)),
                      time_base, AV_TIME_BASE_Q)
    ELSE IF s.video_stream_ # nullptr
            /\ DurationOf(s.format_ctx_, s.video_stream_) # AV_NOPTS_VALUE
    THEN av_rescale_q(DurationOf(s.format_ctx_, s.video_stream_),
                      time_base, AV_TIME_BASE_Q)
    ELSE IF s.audio_stream_ # nullptr
            /\ DurationOf(s.format_ctx_, s.audio_stream_) # AV_NOPTS_VALUE
    THEN av_rescale_q(DurationOf(s.format_ctx_, s.audio_stream_),
                      time_base, AV_TIME_BASE_Q)
    ELSE 0

-----------------------------------------------------------------------------
(* Actions: one per method call *)

Call(op, arg, ret, packet, value) ==
    [op |-> op, arg |-> arg, ret |-> ret, packet |-> packet, value |-> value,
     wasOpen |-> format_ctx_ # nullptr, wasEOF |-> eof_file_,
     timestamp |-> 0, flags |-> 0, time_base |-> AV_TIME_BASE_Q]

SetSelf(s) ==
    /\ type_' = s.type_
    /\ format_ctx_' = s.format_ctx_
    /\ video_stream_' = s.video_stream_
    /\ audio_stream_' = s.audio_stream_
    /\ video_stream_index_' = s.video_stream_index_
    /\ audio_stream_index_' = s.audio_stream_index_
    /\ eof_file_' = s.eof_file_

\* Inputs of seek and getDuration: the caller's timestamp (microseconds)
\* and flags, and the time base the engine reports for a stream.
Timestamps == {0, 1500000}
SeekFlags == {0, AVSEEK_FLAG_BACKWARD}
TimeBases == {[num |-> 1, den |-> 1000]}

\* Inputs of the seeks whose rescaling is looked at: timestamps that fall
\* between two ticks of the stream's time base, and three time bases
SeekTimestamps == {-1500, 0, 1499, 1500, 1700, 20000}
SeekTimeBases ==
    {[num |-> 1, den |-> 1000], [num |-> 1, den |-> 90000],
     [num |-> 1001, den |-> 30000]}

\* What a caller observes of the instance through its accessors
Observable(s) ==
    [index |-> getStreamIndex(s),
     stream |-> getAVStream(s) # nullptr,
     eof |-> isEOF(s),
     duration |-> [time_base \in TimeBases |-> getDuration(s, time_base)]]

\* The engine sessions a sequence of engine calls opens, less those it
\* closes
RECURSIVE SessionsOpened(_)
SessionsOpened(cs) ==
    IF cs = <<>> THEN 0
    ELSE SessionsOpened(Tail(cs))
         + (IF Head(cs).op = "avformat_open_input" /\ Head(cs).ret >= 0
            THEN 1
            ELSE IF Head(cs).op = "avformat_close_input" THEN -1 ELSE 0)

InitWith(files) ==
    /\ \E type \in MediaType :
         /\ type_ = Demuxer(type).type_
         /\ format_ctx_ = Demuxer(type).format_ctx_
         /\ video_stream_ = Demuxer(type).video_stream_
         /\ audio_stream_ = Demuxer(type).audio_stream_
         /\ video_stream_index_ = Demuxer(type).video_stream_index_
         /\ audio_stream_index_ = Demuxer(type).audio_stream_index_
         /\ eof_file_ = Demuxer(type).eof_file_
    /\ disk \in files
    /\ last = Call("Demuxer", "", FALSE, nullptr, 0)
    /\ calls = <<>>
    /\ returned = <<>>
    /\ startPos = 0
    /\ readFailed = FALSE
    /\ alive = TRUE
    /\ sessions = 0
    /\ held = FALSE
    /\ firstOpen = nullptr

\* The locals of a thread that is not inside a method
NoLocals ==
    [op |-> "", target_stream_index |-> -1, packet |-> nullptr,
     ret |-> FALSE, reads |-> 0, frees |-> 0, handed |-> 0, live |-> 0,
     start |-> 0, stale |-> FALSE]

\* n threads use the instance, none of them inside a method
InitThreads(n) ==
    /\ pc = [t \in 1..n |-> "idle"]
    /\ loc = [t \in 1..n |-> NoLocals]
    /\ hazard = "none"

\* n threads use the logger, none of them inside a log statement
InitLoggerWith(n, levels) ==
    /\ globalLevel_ \in levels
    /\ stream_ = [t \in 1..n |-> nullptr]
    /\ cout = <<>>
    /\ cerr = <<>>
    /\ logged = {}

\* inline LogLevel Logger::globalLevel_ = LogLevel::INFO
InitLogger(n) == InitLoggerWith(n, {INFO})

Init == InitWith(Containers) /\ InitThreads(0) /\ InitLogger(0)

Open ==
    /\ alive
    /\ \E filename \in Filenames :
      \E openRet \in IF filename = "" THEN {0} ELSE OpenRets :
        \E probeRet \in IF filename = "" \/ openRet < 0 THEN {0} ELSE ProbeRets :
        LET r == open(Self, filename, disk, openRet, probeRet)
            closed == \E i \in 1..Len(r.calls) :
                         r.calls[i].op = "avformat_close_input"
        IN  /\ SetSelf(r.self)
            /\ last' = Call("open", filename, r.ret, nullptr, 0)
            /\ calls' = r.calls
            /\ returned' = IF filename = "" THEN returned ELSE <<>>
            /\ startPos' = IF filename = "" THEN startPos ELSE 0
            /\ readFailed' = IF filename = "" THEN readFailed ELSE FALSE
            /\ sessions' = sessions + SessionsOpened(r.calls)
            /\ held' = IF r.ret THEN TRUE ELSE IF closed THEN FALSE ELSE held
            /\ firstOpen' = IF r.ret /\ firstOpen = nullptr
                            THEN Observable(r.self) ELSE firstOpen
            /\ UNCHANGED <<stepVars, logVars, disk, alive>>

Close ==
    /\ alive
    /\ SetSelf(close(Self))
    /\ last' = Call("close", "", FALSE, nullptr, 0)
    /\ calls' = closeCalls(Self)
    /\ returned' = <<>>
    /\ startPos' = 0
    /\ readFailed' = FALSE
    /\ sessions' = sessions + SessionsOpened(closeCalls(Self))
    /\ held' = FALSE
    /\ UNCHANGED <<stepVars, logVars, disk, alive, firstOpen>>

\* Demuxer::~Demuxer(): close(), then the instance is gone
Destroy ==
    /\ alive
    /\ SetSelf(close(Self))
    /\ last' = Call("~Demuxer", "", FALSE, nullptr, 0)
    /\ calls' = closeCalls(Self)
    /\ returned' = <<>>
    /\ startPos' = 0
    /\ readFailed' = FALSE
    /\ sessions' = sessions + SessionsOpened(closeCalls(Self))
    /\ held' = FALSE
    /\ alive' = FALSE
    /\ UNCHANGED <<stepVars, logVars, disk, firstOpen>>

ReadPacket ==
    /\ alive
    /\ \E errAt \in IF format_ctx_ = nullptr THEN {0}
                 ELSE 0..(Len(format_ctx_.packets) - format_ctx_.pos + 1) :
        LET r == readPacket(Self, errAt)
            n == Len(r.calls)
        IN  /\ SetSelf(r.self)
            /\ last' = Call("readPacket", "", FALSE, r.ret, 0)
            /\ calls' = r.calls
            /\ returned' = IF r.ret # nullptr THEN Append(returned, r.ret)
                           ELSE returned
            /\ startPos' = startPos
            /\ readFailed' =
                 (readFailed \/ (n > 0 /\ r.calls[n].ret = AVERROR_EIO))
            /\ UNCHANGED <<stepVars, logVars, disk, alive, sessions, held, firstOpen>>

SeekWith(timestamps, time_bases) ==
    /\ alive
    /\ \E timestamp \in IF format_ctx_ = nullptr THEN {0} ELSE timestamps,
       flags \in IF format_ctx_ = nullptr THEN {0} ELSE SeekFlags,
       time_base \in IF format_ctx_ = nullptr THEN {AV_TIME_BASE_Q}
                     ELSE time_bases,
       seekRet \in IF format_ctx_ = nullptr THEN {0} ELSE SeekRets :
      \E newPos \in IF format_ctx_ = nullptr THEN {0}
                    ELSE IF seekRet < 0 THEN {format_ctx_.pos}
                    ELSE 0..Len(format_ctx_.packets) :
        LET r == seek(Self, timestamp, flags, time_base, seekRet, newPos)
        IN  /\ SetSelf(r.self)
            /\ last' = [Call("seek", "", r.ret, nullptr, 0)
                          EXCEPT !.timestamp = timestamp, !.flags = flags,
                                 !.time_base = time_base]
            /\ calls' = r.calls
            /\ returned' = IF r.calls = <<>> THEN returned ELSE <<>>
            /\ startPos' = IF r.calls = <<>> THEN startPos ELSE newPos
            /\ readFailed' = IF r.calls = <<>> THEN readFailed ELSE FALSE
            /\ UNCHANGED <<stepVars, logVars, disk, alive, sessions, held, firstOpen>>

Seek == SeekWith(Timestamps, TimeBases)

SeekFine == SeekWith(SeekTimestamps, SeekTimeBases)

GetDuration ==
    /\ alive
    /\ \E time_base \in TimeBases :
        /\ last' = Call("getDuration", "", FALSE, nullptr,
                        getDuration(Self, time_base))
        /\ calls' = <<>>
        /\ UNCHANGED <<stepVars, logVars, disk, type_, format_ctx_, video_stream_,
                       audio_stream_, video_stream_index_,
                       audio_stream_index_, eof_file_, returned, startPos,
                       readFailed, alive, sessions, held, firstOpen>>

Next == Open \/ Close \/ ReadPacket \/ Seek \/ GetDuration \/ Destroy

Spec == Init /\ [][Next]_vars

\* The same instance on the files asked for their duration
InitDuration ==
    InitWith(DurationContainers) /\ InitThreads(0) /\ InitLogger(0)

SpecDuration == InitDuration /\ [][Next]_vars

\* The instance opened, closed and sought with the finer seek inputs
NextSeek == Open \/ Close \/ SeekFine

\* The files sought in: the read position plays no part, no packets
SeekContainers == {c \in Containers : c.packets = <<>>}

InitSeek == InitWith(SeekContainers) /\ InitThreads(0) /\ InitLogger(0)

SpecSeek == InitSeek /\ [][NextSeek]_vars

-----------------------------------------------------------------------------
(* The methods statement by statement, run by the threads of DOMAIN pc.    *)
(* A thread is at "idle" between two method calls.  An engine call takes   *)
(* two steps, its entry and its return, so that another thread can run     *)
(* while the engine works on the session.                                  *)

\* The places where a thread is inside an engine call on the session
EngineLabels == {"rp_engine", "sk_engine", "cl_engine"}

\* A counter that stops one past the most engine reads a call can make
Counted(n) == IF n <= MaxPackets + 1 THEN n + 1 ELSE n

\* What the build can do with an engine call on a released session: the
\* process dies, or the call comes back with an error
Outcomes(bad) == IF bad THEN {"crash", "error"} ELSE {"ok"}

Crash == pc' = [u \in DOMAIN pc |-> "crashed"]

Hazard(bad, op) ==
    hazard' = IF bad /\ hazard = "none" THEN op ELSE hazard

\* A thread may enter a method whenever it is not inside one: the methods
\* take no lock
MayEnter_locked(t) == \A u \in DOMAIN pc : pc[u] = "idle"

MayEnter(t) == t \in DOMAIN pc /\ pc[t] = "idle"

\* readPacket, the body of its loop after av_read_frame has returned r,
\* that leaves the packets of other streams allocated
readStep_keepPackets(s, l, r) ==
    LET s1 == [s EXCEPT !.format_ctx_ = r.ctx]
    IN  IF r.ret < 0
        THEN [self |-> IF r.ret = AVERROR_EOF
                       THEN [s1 EXCEPT !.eof_file_ = TRUE] ELSE s1,
              loc |-> [l EXCEPT !.frees = Counted(@), !.live = @ - 1],
              pc |-> "idle"]
        ELSE IF r.packet.stream_index = l.target_stream_index
        THEN [self |-> s1,
              loc |-> [l EXCEPT !.packet = r.packet, !.handed = @ + 1,
                                !.live = @ - 1],
              pc |-> "idle"]
        ELSE [self |-> s1, loc |-> l, pc |-> "rp_loop"]

\* The body of the loop reading on when the engine reports end of file
readStep_retryOnEof(s, l, r) ==
    LET s1 == [s EXCEPT !.format_ctx_ = r.ctx]
    IN  IF r.ret = AVERROR_EOF
        THEN [self |-> [s1 EXCEPT !.eof_file_ = TRUE],
              loc |-> [l EXCEPT !.frees = Counted(@), !.live = @ - 1],
              pc |-> "rp_loop"]
        ELSE IF r.ret < 0
        THEN [self |-> s1,
              loc |-> [l EXCEPT !.frees = Counted(@), !.live = @ - 1],
              pc |-> "idle"]
        ELSE IF r.packet.stream_index = l.target_stream_index
        THEN [self |-> s1,
              loc |-> [l EXCEPT !.packet = r.packet, !.handed = @ + 1,
                                !.live = @ - 1],
              pc |-> "idle"]
        ELSE [self |-> s1,
              loc |-> [l EXCEPT !.frees = Counted(@), !.live = @ - 1],
              pc |-> "rp_loop"]

\* Demuxer::readPacket(), the body of its loop after av_read_frame has
\* returned r: the instance, the locals and the place it leaves
readStep(s, l, r) ==
    LET s1 == [s EXCEPT !.format_ctx_ = r.ctx]
    IN  IF r.ret < 0
        THEN [self |-> IF r.ret = AVERROR_EOF
                       THEN [s1 EXCEPT !.eof_file_ = TRUE] ELSE s1,
              loc |-> [l EXCEPT !.frees = Counted(@), !.live = @ - 1],
              pc |-> "idle"]
        ELSE IF r.packet.stream_index = l.target_stream_index
        THEN [self |-> s1,
              loc |-> [l EXCEPT !.packet = r.packet, !.handed = @ + 1,
                                !.live = @ - 1],
              pc |-> "idle"]
        ELSE [self |-> s1,
              loc |-> [l EXCEPT !.frees = Counted(@), !.live = @ - 1],
              pc |-> "rp_loop"]

\* Demuxer::close(), the part after the release of the session
closeReset(s) ==
    [s EXCEPT !.video_stream_ = nullptr,
              !.audio_stream_ = nullptr,
              !.video_stream_index_ = -1,
              !.audio_stream_index_ = -1,
              !.eof_file_ = FALSE]

InstanceUnchanged ==
    UNCHANGED <<type_, format_ctx_, video_stream_, audio_stream_,
                video_stream_index_, audio_stream_index_, eof_file_>>

\* readPacket(): the two checks before the loop
ReadBegin(t) ==
    /\ MayEnter(t)
    /\ LET l == [NoLocals EXCEPT !.op = "readPacket"]
       IN  IF format_ctx_ = nullptr \/ getStreamIndex(Self) < 0
           THEN /\ loc' = [loc EXCEPT ![t] = l]
                /\ pc' = pc
           ELSE /\ loc' = [loc EXCEPT ![t] =
                             [l EXCEPT !.target_stream_index =
                                           getStreamIndex(Self),
                                       !.start = format_ctx_.pos]]
                /\ pc' = [pc EXCEPT ![t] = "rp_loop"]
    /\ InstanceUnchanged
    /\ UNCHANGED <<hazard, logVars, historyVars, disk>>

\* av_packet_alloc() and the entry into av_read_frame(format_ctx_, packet)
ReadEnter(t) ==
    /\ t \in DOMAIN pc /\ pc[t] = "rp_loop"
    /\ pc' = [pc EXCEPT ![t] = "rp_engine"]
    /\ loc' = [loc EXCEPT ![t].live = @ + 1,
                          ![t].stale = (format_ctx_ = nullptr)]
    /\ Hazard(format_ctx_ = nullptr, "av_read_frame")
    /\ InstanceUnchanged
    /\ UNCHANGED <<logVars, historyVars, disk>>

\* The return of av_read_frame and the rest of the loop body
ReadExit(t) ==
    /\ t \in DOMAIN pc /\ pc[t] = "rp_engine"
    /\ \E o \in Outcomes(loc[t].stale),
          fails \in IF loc[t].stale THEN {TRUE} ELSE BOOLEAN :
         IF o = "crash"
         THEN /\ Crash
              /\ InstanceUnchanged
              /\ UNCHANGED loc
         ELSE LET r == IF o = "error"
                       THEN [ret |-> AVERROR_EIO, ctx |-> format_ctx_]
                       ELSE av_read_frame(format_ctx_, fails)
                  n == readStep(Self, loc[t], r)
              IN  /\ SetSelf(n.self)
                  /\ loc' = [loc EXCEPT ![t] =
                               [n.loc EXCEPT !.reads = Counted(@),
                                             !.stale = FALSE]]
                  /\ pc' = [pc EXCEPT ![t] = n.pc]
    /\ Hazard(loc[t].stale, "av_read_frame")
    /\ UNCHANGED <<logVars, historyVars, disk>>

\* seek(): the checks before the engine call
SeekBegin(t) ==
    /\ MayEnter(t)
    /\ loc' = [loc EXCEPT ![t] = [NoLocals EXCEPT !.op = "seek"]]
    /\ pc' = IF \/ format_ctx_ = nullptr
                \/ getStreamIndex(Self) < 0
                \/ StreamAt(format_ctx_, getStreamIndex(Self)) = nullptr
             THEN pc
             ELSE [pc EXCEPT ![t] = "sk_call"]
    /\ InstanceUnchanged
    /\ UNCHANGED <<hazard, logVars, historyVars, disk>>

\* The entry into av_seek_frame(format_ctx_, ...)
SeekEnter(t) ==
    /\ t \in DOMAIN pc /\ pc[t] = "sk_call"
    /\ pc' = [pc EXCEPT ![t] = "sk_engine"]
    /\ loc' = [loc EXCEPT ![t].stale = (format_ctx_ = nullptr)]
    /\ Hazard(format_ctx_ = nullptr, "av_seek_frame")
    /\ InstanceUnchanged
    /\ UNCHANGED <<logVars, historyVars, disk>>

\* The return of av_seek_frame and the rest of seek()
SeekExit(t) ==
    /\ t \in DOMAIN pc /\ pc[t] = "sk_engine"
    /\ \E o \in Outcomes(loc[t].stale), time_base \in TimeBases,
          seekRet \in IF loc[t].stale THEN {AVERROR_EIO} ELSE SeekRets :
        \E newPos \in IF loc[t].stale THEN {0}
                      ELSE IF seekRet < 0 THEN {format_ctx_.pos}
                      ELSE 0..Len(format_ctx_.packets) :
         IF o = "crash"
         THEN /\ Crash
              /\ InstanceUnchanged
              /\ UNCHANGED loc
         ELSE IF o = "error"
         THEN /\ pc' = [pc EXCEPT ![t] = "idle"]
              /\ loc' = [loc EXCEPT ![t].stale = FALSE]
              /\ InstanceUnchanged
         ELSE LET r == seek(Self, 0, 0, time_base, seekRet, newPos)
              IN  /\ SetSelf(r.self)
                  /\ loc' = [loc EXCEPT ![t].ret = r.ret]
                  /\ pc' = [pc EXCEPT ![t] = "idle"]
    /\ Hazard(loc[t].stale, "av_seek_frame")
    /\ UNCHANGED <<logVars, historyVars, disk>>

\* close(): the check of the session and the entry into
\* avformat_close_input(&format_ctx_)
CloseBegin(t) ==
    /\ MayEnter(t)
    /\ loc' = [loc EXCEPT ![t] = [NoLocals EXCEPT !.op = "close"]]
    /\ pc' = [pc EXCEPT ![t] = IF format_ctx_ # nullptr THEN "cl_engine"
                              ELSE "cl_reset"]
    /\ InstanceUnchanged
    /\ UNCHANGED <<hazard, logVars, historyVars, disk>>

\* The return of avformat_close_input: the session is released and the
\* pointer nulled; the engine calls other threads have running on the
\* session now run on a released one
CloseExit(t) ==
    /\ t \in DOMAIN pc /\ pc[t] = "cl_engine"
    /\ \E o \in Outcomes(loc[t].stale) :
         IF o = "crash"
         THEN /\ Crash
              /\ InstanceUnchanged
              /\ UNCHANGED loc
         ELSE /\ format_ctx_' = nullptr
              /\ UNCHANGED <<type_, video_stream_, audio_stream_,
                             video_stream_index_, audio_stream_index_,
                             eof_file_>>
              /\ loc' = [u \in DOMAIN loc |->
                           IF u = t THEN [loc[u] EXCEPT !.stale = FALSE]
                           ELSE IF pc[u] \in EngineLabels
                           THEN [loc[u] EXCEPT !.stale = TRUE]
                           ELSE loc[u]]
              /\ pc' = [pc EXCEPT ![t] = "cl_reset"]
    /\ Hazard(loc[t].stale, "avformat_close_input")
    /\ UNCHANGED <<logVars, historyVars, disk>>

\* The rest of close(): handles, indices and flag are reset
CloseReset(t) ==
    /\ t \in DOMAIN pc /\ pc[t] = "cl_reset"
    /\ SetSelf(closeReset(Self))
    /\ pc' = [pc EXCEPT ![t] = IF loc[t].op = "open" THEN "op_open"
                              ELSE "idle"]
    /\ UNCHANGED <<loc, hazard, logVars, historyVars, disk>>

\* open(): the check of the filename and the close() of a previous session
OpenBegin(t) ==
    /\ MayEnter(t)
    /\ \E filename \in Filenames :
         /\ loc' = [loc EXCEPT ![t] = [NoLocals EXCEPT !.op = "open"]]
         /\ pc' = IF filename = "" THEN pc
                  ELSE [pc EXCEPT ![t] = IF format_ctx_ # nullptr
                                         THEN "cl_engine" ELSE "op_open"]
    /\ InstanceUnchanged
    /\ UNCHANGED <<hazard, logVars, historyVars, disk>>

\* The rest of open(): avformat_open_input(&format_ctx_, ...), the probe
\* and the choice of the streams
OpenEngine(t) ==
    /\ t \in DOMAIN pc /\ pc[t] = "op_open"
    /\ \E o \in Outcomes(format_ctx_ # nullptr),
          openRet \in IF format_ctx_ # nullptr THEN {0} ELSE OpenRets :
        \E probeRet \in IF format_ctx_ # nullptr \/ openRet < 0 THEN {0}
                        ELSE ProbeRets :
         IF o = "crash"
         THEN /\ Crash
              /\ InstanceUnchanged
              /\ UNCHANGED loc
         ELSE IF o = "error"
         THEN /\ pc' = [pc EXCEPT ![t] = "idle"]
              /\ InstanceUnchanged
              /\ UNCHANGED loc
         ELSE LET r == openFile(Self, disk, openRet, probeRet)
              IN  /\ SetSelf(r.self)
                  /\ loc' = [loc EXCEPT ![t].ret = r.ret]
                  /\ pc' = [pc EXCEPT ![t] = "idle"]
    /\ Hazard(format_ctx_ # nullptr, "avformat_open_input")
    /\ UNCHANGED <<logVars, historyVars, disk>>

\* The threads there can be; those of a behaviour are DOMAIN pc
Threads == {1, 2}

NextStep ==
    \E t \in Threads :
        \/ OpenBegin(t) \/ OpenEngine(t)
        \/ CloseBegin(t) \/ CloseExit(t) \/ CloseReset(t)
        \/ ReadBegin(t) \/ ReadEnter(t) \/ ReadExit(t)
        \/ SeekBegin(t) \/ SeekEnter(t) \/ SeekExit(t)

\* One thread: a thread inside the read loop keeps running
InitSteps == InitWith(Containers) /\ InitThreads(1) /\ InitLogger(0)

SpecSteps ==
    /\ InitSteps
    /\ [][NextStep]_vars
    /\ WF_vars(ReadEnter(1))
    /\ WF_vars(ReadExit(1))

\* Two threads on the same instance
\* The files the two threads work on: at most one packet
ThreadContainers == {c \in Containers : Len(c.packets) <= 1}

InitThreads2 ==
    InitWith(ThreadContainers) /\ InitThreads(2) /\ InitLogger(0)

SpecThreads == InitThreads2 /\ [][NextStep]_vars

-----------------------------------------------------------------------------
(* The Logger (src/src/utils/logger.hpp).  A log statement                  *)
(*     LOG_x << value;                                                      *)
(* constructs a LogStream, appends the value and destroys the LogStream,    *)
(* whose destructor writes the buffered line.  The line goes to a stream    *)
(* as two pieces, its body and its end (colour reset and newline): the      *)
(* insertion std::cout << stream_.str() is not one indivisible write, the   *)
(* logger takes no lock around it.                                          *)

LogLevels == {DEBUG, INFO, WARN, ERROR, FATAL}

\* The test of the constructor, of operator<< and of the destructor with
\* > in place of >=
Enabled_above(level, globalLevel) == level > globalLevel

\* level_ >= globalLevel_: the test of the constructor, of operator<< and
\* of the destructor
Enabled(level, globalLevel) == level >= globalLevel

\* level_ >= LogLevel::ERROR: the line goes to std::cerr as well
ToStderr(level) == level >= ERROR

\* The log statements thread t has begun
Begun(t) ==
    Cardinality({d \in logged : d.thread = t})
        + (IF stream_[t] = nullptr THEN 0 ELSE 1)

\* The pieces stream_.str() is written in
Pieces(ls) ==
    <<[thread |-> ls.thread, n |-> ls.n, part |-> "body",
       header |-> ls.header, text |-> ls.text],
      [thread |-> ls.thread, n |-> ls.n, part |-> "end",
       header |-> ls.header, text |-> ls.text]>>

\* The record kept of a completed log statement
Logged(ls, out) ==
    [thread |-> ls.thread, n |-> ls.n, level |-> ls.level,
     header |-> ls.header, text |-> ls.text, globalLevel |-> ls.globalLevel,
     out |-> out]

\* Logger::setGlobalLevel(level), called by a thread between two of its
\* statements
SetGlobalLevel(t) ==
    /\ t \in DOMAIN stream_ /\ stream_[t] = nullptr
    /\ \E level \in LogLevels \ {globalLevel_} : globalLevel_' = level
    /\ UNCHANGED <<stream_, cout, cerr, logged>>
    /\ UNCHANGED <<disk, type_, format_ctx_, video_stream_, audio_stream_,
                   video_stream_index_, audio_stream_index_, eof_file_,
                   historyVars, stepVars>>

\* LogStream::LogStream(level, file, function, line) through
\* Logger::Debug .. Logger::Fatal: the header goes to the buffer if the
\* level is enabled
LogBegin(t) ==
    /\ t \in DOMAIN stream_ /\ stream_[t] = nullptr
    /\ Begun(t) < MaxMessages
    /\ \E level \in LogLevels :
         stream_' = [stream_ EXCEPT ![t] =
                       [thread |-> t, n |-> Begun(t) + 1, level |-> level,
                        header |-> Enabled(level, globalLevel_),
                        text |-> FALSE, globalLevel |-> globalLevel_,
                        stage |-> "built", written |-> 0]]
    /\ UNCHANGED <<globalLevel_, cout, cerr, logged>>
    /\ UNCHANGED <<disk, type_, format_ctx_, video_stream_, audio_stream_,
                   video_stream_index_, audio_stream_index_, eof_file_,
                   historyVars, stepVars>>

\* LogStream::operator<<(value): the value goes to the buffer if the level
\* is enabled
LogAppend(t) ==
    /\ t \in DOMAIN stream_ /\ stream_[t] # nullptr
    /\ stream_[t].stage = "built"
    /\ stream_' = [stream_ EXCEPT
                     ![t].text = Enabled(stream_[t].level, globalLevel_),
                     ![t].globalLevel = globalLevel_,
                     ![t].stage = "filled"]
    /\ UNCHANGED <<globalLevel_, cout, cerr, logged>>
    /\ UNCHANGED <<disk, type_, format_ctx_, video_stream_, audio_stream_,
                   video_stream_index_, audio_stream_index_, eof_file_,
                   historyVars, stepVars>>

\* LogStream::~LogStream(), its test: an enabled statement goes on to
\* write its line, another one is over
LogEnd(t) ==
    /\ t \in DOMAIN stream_ /\ stream_[t] # nullptr
    /\ stream_[t].stage = "filled"
    /\ LET ls == [stream_[t] EXCEPT !.globalLevel = globalLevel_]
       IN  IF Enabled(ls.level, globalLevel_)
           THEN /\ stream_' = [stream_ EXCEPT ![t] =
                                 [ls EXCEPT !.stage = "cout"]]
                /\ logged' = logged
           ELSE /\ stream_' = [stream_ EXCEPT ![t] = nullptr]
                /\ logged' = logged \cup {Logged(ls, FALSE)}
    /\ UNCHANGED <<globalLevel_, cout, cerr>>
    /\ UNCHANGED <<disk, type_, format_ctx_, video_stream_, audio_stream_,
                   video_stream_index_, audio_stream_index_, eof_file_,
                   historyVars, stepVars>>

\* std::cout << stream_.str(), piece by piece; after the last piece the
\* statement goes on to std::cerr or is over
WriteOut(t) ==
    /\ t \in DOMAIN stream_ /\ stream_[t] # nullptr
    /\ stream_[t].stage = "cout"
    /\ LET ls == stream_[t]
           k == ls.written + 1
       IN  /\ cout' = Append(cout, Pieces(ls)[k])
           /\ IF k < Len(Pieces(ls))
              THEN /\ stream_' = [stream_ EXCEPT ![t].written = k]
                   /\ logged' = logged
              ELSE IF ToStderr(ls.level)
              THEN /\ stream_' = [stream_ EXCEPT ![t].written = 0,
                                                 ![t].stage = "cerr"]
                   /\ logged' = logged
              ELSE /\ stream_' = [stream_ EXCEPT ![t] = nullptr]
                   /\ logged' = logged \cup {Logged(ls, TRUE)}
    /\ UNCHANGED <<globalLevel_, cerr>>
    /\ UNCHANGED <<disk, type_, format_ctx_, video_stream_, audio_stream_,
                   video_stream_index_, audio_stream_index_, eof_file_,
                   historyVars, stepVars>>

\* std::cerr << stream_.str(), piece by piece
WriteErr(t) ==
    /\ t \in DOMAIN stream_ /\ stream_[t] # nullptr
    /\ stream_[t].stage = "cerr"
    /\ LET ls == stream_[t]
           k == ls.written + 1
       IN  /\ cerr' = Append(cerr, Pieces(ls)[k])
           /\ IF k < Len(Pieces(ls))
              THEN /\ stream_' = [stream_ EXCEPT ![t].written = k]
                   /\ logged' = logged
              ELSE /\ stream_' = [stream_ EXCEPT ![t] = nullptr]
                   /\ logged' = logged \cup {Logged(ls, TRUE)}
    /\ UNCHANGED <<globalLevel_, cout>>
    /\ UNCHANGED <<disk, type_, format_ctx_, video_stream_, audio_stream_,
                   video_stream_index_, audio_stream_index_, eof_file_,
                   historyVars, stepVars>>

NextLog ==
    \E t \in Threads :
        \/ SetGlobalLevel(t)
        \/ LogBegin(t) \/ LogAppend(t) \/ LogEnd(t)
        \/ WriteOut(t) \/ WriteErr(t)

\* One thread logs
InitLog ==
    /\ InitWith({CHOOSE c \in Containers : c.streams = <<>>})
    /\ type_ = "VIDEO"
    /\ InitThreads(0) /\ InitLogger(1)

SpecLogger == InitLog /\ [][NextLog]_vars

\* Two threads log while the global level stays as it was set before
InitLog2 ==
    /\ InitWith({CHOOSE c \in Containers : c.streams = <<>>})
    /\ type_ = "VIDEO"
    /\ InitThreads(0) /\ InitLoggerWith(2, LogLevels)

NextLog2 ==
    \E t \in Threads :
        \/ LogBegin(t) \/ LogAppend(t) \/ LogEnd(t)
        \/ WriteOut(t) \/ WriteErr(t)

SpecLoggers == InitLog2 /\ [][NextLog2]_vars

-----------------------------------------------------------------------------
(* Properties *)

IsOpen == format_ctx_ # nullptr

\* The last call was op
Did(op) == last.op = op

\* The engine call named op was made by the last call and succeeded
EngineOK(op) == \E i \in 1..Len(calls) : calls[i].op = op /\ calls[i].ret >= 0

\* The engine call named op was made by the last call and failed
EngineFailed(op) == \E i \in 1..Len(calls) : calls[i].op = op /\ calls[i].ret < 0

\* The result of the last engine read of the last call (0 when none)
LastRead == IF calls = <<>> THEN 0 ELSE calls[Len(calls)].ret

\* The packets the engine yields at positions from+1 .. to of the session
EnginePackets(ctx, from, to) ==
    [i \in 1..(to - from) |->
        [stream_index |-> ctx.packets[from + i], pos |-> from + i]]

\* C1: every packet readPacket returns has the stream index getStreamIndex
\* reports; a packet of another stream is never returned.
C1_ReturnedPacketIsTarget ==
    (Did("readPacket") /\ last.packet # nullptr)
        => last.packet.stream_index = getStreamIndex(Self)

\* readPacket returned a target packet after discarding one of another stream
C1_Witness ==
    /\ Did("readPacket") /\ last.packet # nullptr
    /\ Len(calls) >= 2
    /\ last.packet.stream_index = getStreamIndex(Self)

\* C2: with no read error since the last open or seek, the packets handed
\* out since then are exactly the engine's packets between the position
\* then and the position now that belong to the target stream, in the
\* engine's order.
C2_ReturnedIsEngineOrderFiltered ==
    (IsOpen /\ getStreamIndex(Self) >= 0 /\ ~readFailed)
        => LET IsTarget(p) == p.stream_index = getStreamIndex(Self)
           IN  returned =
                 SelectSeq(EnginePackets(format_ctx_, startPos, format_ctx_.pos),
                           IsTarget)

\* Target packets were handed out on both sides of a discarded packet
C2_Witness ==
    /\ IsOpen /\ getStreamIndex(Self) >= 0 /\ ~readFailed
    /\ Len(returned) >= 2
    /\ format_ctx_.pos - startPos > Len(returned)
    /\ returned[Len(returned)].pos - returned[1].pos >= 2

\* C3: a successful open leaves isEOF false, also on an instance that was at
\* end of file; isEOF turns true only in a readPacket call; and a readPacket
\* call whose engine read reports end of file returns null with isEOF true.
C3_EofAfterOpenAndExhaustion ==
    [][ /\ (Did("open")' /\ last'.ret = TRUE) => ~eof_file_'
        /\ (~eof_file_ /\ eof_file_') => Did("readPacket")'
        /\ (Did("readPacket")' /\ LastRead' = AVERROR_EOF)
              => (last'.packet = nullptr /\ eof_file_') ]_vars

\* readPacket handed out packets, then hit the end of the file
C3_Witness ==
    /\ Did("readPacket") /\ LastRead = AVERROR_EOF
    /\ Len(returned) >= 1 /\ eof_file_

\* C4: after a seek that returned true isEOF is false; and at end of file,
\* a seek the engine carries out returns true and clears the flag.
C4_SeekClearsEof ==
    /\ (Did("seek") /\ last.ret = TRUE) => ~eof_file_
    /\ eof_file_ =>
          \A timestamp \in Timestamps, flags \in SeekFlags,
             time_base \in TimeBases, newPos \in 0..Len(format_ctx_.packets) :
              LET r == seek(Self, timestamp, flags, time_base, 0, newPos)
              IN  r.ret = TRUE /\ ~r.self.eof_file_

\* A seek succeeded on an instance that was at end of file
C4_Witness == Did("seek") /\ last.ret = TRUE /\ last.wasEOF /\ ~eof_file_

\* C5: open with a non-empty path returns true exactly when the engine
\* opened the container and probed its streams.
C5_OpenTrueIffOpenedAndProbed ==
    (Did("open") /\ last.arg # "")
        => (last.ret = TRUE <=>
              (EngineOK("avformat_open_input")
               /\ EngineOK("avformat_find_stream_info")))

\* open returned true although the stream of the declared kind is absent
C5_Witness ==
    /\ Did("open") /\ last.arg # "" /\ last.ret = TRUE
    /\ getStreamIndex(Self) < 0

\* C6: on an open instance getStreamIndex is -1 or the index of a stream of
\* the probed stream table.
C6_StreamIndexMinusOneOrValid ==
    IsOpen => \/ getStreamIndex(Self) = -1
              \/ getStreamIndex(Self) \in 0..(Len(format_ctx_.streams) - 1)

\* C7: on an open instance without a target stream readPacket returns null
\* without an engine call, and isEOF is false.
C7_NoTargetReadsNothing ==
    /\ (IsOpen /\ getStreamIndex(Self) < 0) => ~eof_file_
    /\ (Did("readPacket") /\ IsOpen /\ getStreamIndex(Self) < 0)
          => (last.packet = nullptr /\ calls = <<>>)

\* readPacket was called without a target stream on a container with packets
C7_Witness ==
    /\ Did("readPacket") /\ IsOpen /\ getStreamIndex(Self) < 0
    /\ Len(format_ctx_.packets) > 0
    /\ last.packet = nullptr

\* C8 as stated: open with an empty path returns false and the instance is
\* closed afterwards, from any prior state.
C8_EmptyPathLeavesClosed ==
    (Did("open") /\ last.arg = "") => (last.ret = FALSE /\ ~IsOpen)

\* C8 amended: open with an empty path returns false and the instance is
\* open afterwards exactly if it was open before.
C8_EmptyPathKeepsSession ==
    (Did("open") /\ last.arg = "")
        => (last.ret = FALSE /\ (IsOpen <=> last.wasOpen))

\* open with an empty path was called on a closed instance
C8_Witness ==
    Did("open") /\ last.arg = "" /\ ~last.wasOpen /\ ~IsOpen

\* C9: open with an empty path changes no field of the instance and makes
\* no engine call.
C9_EmptyPathNoSideEffect ==
    [][ (Did("open")' /\ last'.arg = "")
          => (Self' = Self /\ calls' = <<>>) ]_vars

\* open with an empty path was called on an open instance at end of file
C9_Witness ==
    /\ Did("open") /\ last.arg = ""
    /\ last.wasOpen /\ last.wasEOF
    /\ IsOpen /\ eof_file_

\* C10: when open with a non-empty path returns false the instance has the
\* fields of a newly constructed one.
C10_FailedOpenIsClean ==
    (Did("open") /\ last.arg # "" /\ last.ret = FALSE)
        => Self = Demuxer(type_)

\* open failed in the probe on an instance that was open
C10_Witness ==
    /\ Did("open") /\ last.arg # "" /\ last.ret = FALSE
    /\ last.wasOpen
    /\ EngineFailed("avformat_find_stream_info")

\* C11: the instance holds a container session exactly if an open() has
\* returned true and close() has not been invoked since.
C11_SessionIffOpenedNotClosed == IsOpen <=> held

\* A re-open of an open instance failed: close() ran inside it
C11_Witness ==
    /\ Did("open") /\ last.ret = FALSE /\ last.wasOpen
    /\ ~IsOpen /\ ~held

\* C12: the engine has one session of the instance when the instance holds
\* one and none otherwise; the engine's open is never called while a session
\* of the instance is live; none is left after the destructor.
C12_NoSessionLeakedOrDoubled ==
    /\ sessions = IF IsOpen THEN 1 ELSE 0
    /\ \A i \in 1..Len(calls) :
          calls[i].op = "avformat_open_input"
            => (sessions - SessionsOpened(calls))
                 + SessionsOpened(SubSeq(calls, 1, i - 1)) = 0
    /\ ~alive => sessions = 0

\* A re-open of an open instance succeeded
C12_Witness ==
    /\ Did("open") /\ last.ret = TRUE /\ last.wasOpen
    /\ sessions = 1

\* C13: close() leaves the fields of a newly constructed instance of the
\* same media kind, whatever the state before.
C13_CloseLeavesDefaults ==
    [][ Did("close")' => Self' = Demuxer(type_) ]_vars

\* close() was called on an open instance at end of file
C13_Witness ==
    /\ Did("close") /\ last.wasOpen /\ last.wasEOF
    /\ Self = Demuxer(type_)

\* C14: right after a close(), another close() changes no field and makes
\* no engine call, so the session is released once.
C14_CloseIdempotent ==
    [][ Did("close")
          => /\ close(Self) = Self
             /\ closeCalls(Self) = <<>>
             /\ Did("close")'
                   => (Self' = Self /\ calls' = <<>> /\ sessions' = sessions)
      ]_vars

\* close() released the session of an open instance
C14_Witness ==
    /\ Did("close") /\ last.wasOpen
    /\ calls # <<>> /\ sessions = 0

\* C15: whenever the engine opens and probes the file, open() returns true
\* and leaves the same target stream index, stream handle presence, isEOF
\* and duration to observe as the first successful open() did.
C15_ReopenLikeFirstOpen ==
    (/\ Did("open") /\ last.arg # ""
     /\ ~EngineFailed("avformat_open_input")
     /\ ~EngineFailed("avformat_find_stream_info"))
        => (last.ret = TRUE /\ Observable(Self) = firstOpen)

\* The file was opened again on an instance that had read it to the end
C15_Witness ==
    /\ Did("open") /\ last.ret = TRUE
    /\ last.wasOpen /\ last.wasEOF
    /\ firstOpen # nullptr

\* The duration a stream handle gives in microseconds, unset when the
\* handle is null or the stream's duration is unset
MicrosecondsOf(stream, time_base) ==
    IF stream = nullptr THEN AV_NOPTS_VALUE
    ELSE IF DurationOf(format_ctx_, stream) = AV_NOPTS_VALUE THEN AV_NOPTS_VALUE
    ELSE av_rescale_q(DurationOf(format_ctx_, stream), time_base,
                      AV_TIME_BASE_Q)

\* The sources of the duration in their order of priority
DurationSources(time_base) ==
    <<format_ctx_.duration,
      MicrosecondsOf(getAVStream(Self), time_base),
      MicrosecondsOf(video_stream_, time_base),
      MicrosecondsOf(audio_stream_, time_base)>>

\* The first element of a sequence that is set, 0 when none is
FirstSet(seq) ==
    LET set == {i \in 1..Len(seq) : seq[i] # AV_NOPTS_VALUE}
    IN  IF set = {} THEN 0
        ELSE seq[CHOOSE i \in set : \A j \in set : i <= j]

\* C16: on an open instance getDuration returns the first that is set of
\* the container's duration, the target stream's, the video stream's and
\* the audio stream's, and 0 when none is.
C16_DurationPriorityOrder ==
    (Did("getDuration") /\ IsOpen)
        => \E time_base \in TimeBases :
              last.value = FirstSet(DurationSources(time_base))

\* getDuration fell through to the audio stream's duration
C16_Witness ==
    /\ Did("getDuration") /\ IsOpen
    /\ format_ctx_.duration = AV_NOPTS_VALUE
    /\ \A time_base \in TimeBases :
          /\ MicrosecondsOf(getAVStream(Self), time_base) = AV_NOPTS_VALUE
          /\ MicrosecondsOf(video_stream_, time_base) = AV_NOPTS_VALUE
          /\ MicrosecondsOf(audio_stream_, time_base) # AV_NOPTS_VALUE
    /\ last.value > 0

C18_FailedSeekChangesNothing ==
    [][ (Did("seek")' /\ last'.ret = FALSE)
          => /\ Self' = Self
             /\ (~IsOpen \/ getStreamIndex(Self) < 0) => calls' = <<>>
      ]_vars

\* The engine's seek failed on an instance at end of file
C18_Witness ==
    /\ Did("seek") /\ last.ret = FALSE
    /\ EngineFailed("av_seek_frame")
    /\ last.wasEOF /\ eof_file_

\* C19: a readPacket call ended by a read error other than end of file
\* returns null, keeps the end-of-file flag, and leaves the instance open
\* with the same stream selection.
C19_ReadErrorKeepsEofFlag ==
    [][ (Did("readPacket")' /\ LastRead' = AVERROR_EIO)
          => /\ last'.packet = nullptr
             /\ eof_file_' = eof_file_
             /\ IsOpen'
             /\ UNCHANGED <<type_, video_stream_, audio_stream_,
                            video_stream_index_, audio_stream_index_>>
      ]_vars

\* A read error on an instance at end of file left the flag set
C19_Witness ==
    /\ Did("readPacket") /\ LastRead = AVERROR_EIO
    /\ last.wasEOF /\ eof_file_ /\ IsOpen

\* C20 as stated: after a null return on an open instance with a target
\* stream, isEOF is true if the call ended at end of file and false if it
\* ended in another error.
C20_EofTellsEndFromError ==
    (Did("readPacket") /\ last.packet = nullptr
     /\ IsOpen /\ getStreamIndex(Self) >= 0)
        => /\ LastRead = AVERROR_EOF => eof_file_
           /\ LastRead = AVERROR_EIO => ~eof_file_

\* C20 amended: isEOF is true if the call ended at end of file, and is as
\* it was before the call if it ended in another error.
C20_EofAfterNullReturn ==
    (Did("readPacket") /\ last.packet = nullptr
     /\ IsOpen /\ getStreamIndex(Self) >= 0)
        => /\ LastRead = AVERROR_EOF => eof_file_
           /\ LastRead = AVERROR_EIO => (eof_file_ <=> last.wasEOF)

\* A read error after discarded packets, with end of file not yet seen
C20_Witness ==
    /\ Did("readPacket") /\ last.packet = nullptr
    /\ IsOpen /\ getStreamIndex(Self) >= 0
    /\ LastRead = AVERROR_EIO /\ Len(calls) >= 2
    /\ ~eof_file_

\* C26: the end-of-file flag goes from false to true only in a readPacket
\* step whose last engine read reported end of file.
C26_EofSetOnlyByEngineEof ==
    [][ (~eof_file_ /\ eof_file_')
          => (Did("readPacket")' /\ LastRead' = AVERROR_EOF
              /\ last'.packet = nullptr)
      ]_vars

\* A readPacket at the end of the packets set the flag that was clear
C26_Witness ==
    /\ Did("readPacket") /\ LastRead = AVERROR_EOF
    /\ ~last.wasEOF /\ eof_file_
    /\ returned # <<>>

\* C27: each stream handle is non-null exactly if its stream index is >= 0,
\* and both handles are null whenever the instance holds no session.
C27_HandleIffIndex ==
    /\ (video_stream_ # nullptr) <=> (video_stream_index_ >= 0)
    /\ (audio_stream_ # nullptr) <=> (audio_stream_index_ >= 0)
    /\ ~IsOpen => (video_stream_ = nullptr /\ audio_stream_ = nullptr)
    /\ IsOpen =>
          /\ video_stream_ # nullptr
                => video_stream_ = StreamAt(format_ctx_, video_stream_index_)
          /\ audio_stream_ # nullptr
                => audio_stream_ = StreamAt(format_ctx_, audio_stream_index_)

\* A close released the session of an instance that had found a stream
C27_Witness ==
    /\ Did("close") /\ last.wasOpen /\ ~IsOpen
    /\ firstOpen # nullptr /\ firstOpen.stream
    /\ video_stream_ = nullptr /\ audio_stream_ = nullptr
    /\ video_stream_index_ = -1 /\ audio_stream_index_ = -1

\* C29: isEOF() true implies that the instance holds a session and that its
\* target stream index is >= 0.
C29_EofImpliesOpenWithTarget ==
    isEOF(Self) => (IsOpen /\ getStreamIndex(Self) >= 0)

\* End of file was reached after packets of another stream were discarded
C29_Witness ==
    /\ isEOF(Self) /\ IsOpen /\ getStreamIndex(Self) >= 0
    /\ Did("readPacket") /\ Len(calls) >= 2

Abs(x) == IF x < 0 THEN -x ELSE x

\* r is the integer nearest to p / q (q > 0), the one further from zero
\* when p / q lies halfway between two integers
NearestQuotient(r, p, q) ==
    /\ Abs(r) <= Abs(p) \div q + 1
    /\ 2 * Abs(r * q - p) <= q
    /\ 2 * Abs(r * q - p) = q => Abs(r * q) > Abs(p)

\* C28: a seek on an open instance with a target stream calls the engine's
\* seek exactly once, with the target stream's index, with the caller's
\* flags, and with timestamp * den / (num * 1000000) rounded to the nearest
\* integer for the stream's time base num/den.
C28_SeekPassesRescaledTarget ==
    (Did("seek") /\ last.wasOpen /\ getStreamIndex(Self) >= 0)
        => /\ Len(calls) = 1
           /\ calls[1].op = "av_seek_frame"
           /\ calls[1].stream_index = getStreamIndex(Self)
           /\ calls[1].flags = last.flags
           /\ NearestQuotient(calls[1].timestamp,
                              last.timestamp * last.time_base.den,
                              last.time_base.num * AV_TIME_BASE)

\* A seek to 1500 us in a 1/1000 time base went to the engine as tick 2
\* with the backward flag
C28_Witness ==
    /\ Did("seek") /\ Len(calls) = 1
    /\ last.timestamp = 1500 /\ last.time_base = [num |-> 1, den |-> 1000]
    /\ last.flags = AVSEEK_FLAG_BACKWARD
    /\ calls[1].timestamp = 2 /\ calls[1].flags = AVSEEK_FLAG_BACKWARD

\* The thread is inside the loop of readPacket
InReadLoop(t) == pc[t] \in {"rp_loop", "rp_engine"}

\* The thread's readPacket call has returned a target packet or null
ReadReturned(t) ==
    /\ pc[t] = "idle" /\ loc[t].op = "readPacket"
    /\ \/ loc[t].packet = nullptr
       \/ loc[t].packet.stream_index = loc[t].target_stream_index

\* C21: on a finite packet sequence every readPacket call makes at most
\* one engine read per packet left plus one, and returns, with a packet
\* of the target stream or with null.
C21_ReadPacketTerminates ==
    /\ [](InReadLoop(1)
            => loc[1].reads <= Len(disk.packets) - loc[1].start + 1)
    /\ (InReadLoop(1) ~> ReadReturned(1))

\* A call read past every packet of the file, none of them of the target
\* stream, and returned null at end of file
C21_Witness ==
    /\ DOMAIN pc = {1} /\ ReadReturned(1)
    /\ Len(disk.packets) = MaxPackets
    /\ loc[1].start = 0 /\ loc[1].reads = MaxPackets + 1
    /\ loc[1].packet = nullptr /\ eof_file_

\* C22: nothing keeps a second thread from entering close() or open()
\* while a thread stands between the checks of a method and the end of
\* its engine call.
C22_NoInternalSynchronization ==
    \A t \in DOMAIN pc : \A u \in DOMAIN pc \ {t} :
        (pc[t] \in {"rp_loop", "rp_engine", "sk_call", "sk_engine",
                    "cl_engine", "cl_reset", "op_open"}
         /\ pc[u] = "idle")
            => (ENABLED CloseBegin(u) /\ ENABLED OpenBegin(u))

\* The engine's read ran on a session that a close() of the other thread
\* had released after the reader's checks
C22_Witness ==
    /\ hazard = "av_read_frame"
    /\ \E t \in DOMAIN pc : \E u \in DOMAIN pc \ {t} :
          /\ loc[t].op = "readPacket" /\ pc[t] = "rp_engine"
          /\ loc[t].stale
          /\ loc[u].op = "close" /\ pc[u] = "idle"
    /\ format_ctx_ = nullptr

\* C25: a readPacket call holds one packet while the engine reads into it
\* and none otherwise; when it returns, every packet it allocated has been
\* freed except the one it returns.
C25_PacketsReleasedOrReturned ==
    \A t \in DOMAIN pc :
        /\ loc[t].live = IF pc[t] = "rp_engine" THEN 1 ELSE 0
        /\ pc[t] = "rp_loop"
              => (loc[t].reads = loc[t].frees /\ loc[t].handed = 0)
        /\ (pc[t] = "idle" /\ loc[t].op = "readPacket")
              => /\ loc[t].reads = loc[t].frees + loc[t].handed
                 /\ loc[t].handed = IF loc[t].packet # nullptr THEN 1 ELSE 0

\* A call returned a packet after freeing packets of another stream
C25_Witness ==
    /\ DOMAIN pc = {1}
    /\ pc[1] = "idle" /\ loc[1].op = "readPacket"
    /\ loc[1].packet # nullptr
    /\ loc[1].frees >= 1 /\ loc[1].live = 0

\* The places in what a stream received that hold pieces of statement d
PiecesOf(d, out) ==
    {j \in 1..Len(out) : out[j].thread = d.thread /\ out[j].n = d.n}

\* The stream received the line of statement d once and whole: its body
\* with header and text, and right after it its end
LineOn(d, out) ==
    \E j \in 1..(Len(out) - 1) :
        /\ PiecesOf(d, out) = {j, j + 1}
        /\ out[j].part = "body" /\ out[j].header /\ out[j].text
        /\ out[j + 1].part = "end"

\* C23: a log statement is written exactly if its level is at or above the
\* global level of the moment; a written line is on stdout, and on stderr
\* too exactly if the level is ERROR or FATAL.
C23_OutputIffLevelEnabled ==
    \A d \in logged :
        /\ d.out <=> d.level >= d.globalLevel
        /\ IF d.level >= d.globalLevel
           THEN LineOn(d, cout) ELSE PiecesOf(d, cout) = {}
        /\ IF d.level >= d.globalLevel /\ d.level \in {ERROR, FATAL}
           THEN LineOn(d, cerr) ELSE PiecesOf(d, cerr) = {}

\* With the global level at WARN an INFO statement wrote nothing, a WARN
\* statement wrote to stdout only
C23_Witness ==
    /\ DOMAIN stream_ = {1}
    /\ \E d \in logged, e \in logged :
          /\ d.level = INFO /\ d.globalLevel = WARN
          /\ PiecesOf(d, cout) = {} /\ PiecesOf(d, cerr) = {}
          /\ e.level = WARN /\ e.globalLevel = WARN
          /\ LineOn(e, cout) /\ PiecesOf(e, cerr) = {}

\* C24: when the threads have executed their statements, all at an enabled
\* level, stdout holds one line per statement and the line of every
\* statement whole, none mixed with pieces of another.
C24_ConcurrentLinesWhole ==
    (/\ DOMAIN stream_ = {1, 2}
     /\ \A t \in DOMAIN stream_ : stream_[t] = nullptr
     /\ \A d \in logged : d.level >= globalLevel_)
        => /\ Cardinality({j \in 1..Len(cout) : cout[j].part = "end"})
                = Cardinality(logged)
           /\ \A d \in logged : LineOn(d, cout)

=============================================================================
